---- MODULE Spec2Model ----
(***************************************************************************)
(* Smart warehouse IoT simulation: the controller's authentication and     *)
(* authorisation decision (model.py, Controller) behind the network        *)
(* simulator (model.py, NetworkSimulator).                                 *)
(*                                                                         *)
(* Conventions.  Probabilities are percentages (0.05 is 5, 1.0 is 100) and *)
(* a draw of random.random() is a percentage in 0..99, so that r < p is    *)
(* decided as in the code.  Latencies are whole milliseconds.  Python's    *)
(* None is the value None below; None and the empty string are the two     *)
(* falsy values an Optional[str] can take.                                 *)
(***************************************************************************)
EXTENDS Integers, FiniteSets, Sequences, TLC

VARIABLES
    mode,              \* Controller.mode
    loss_probability,  \* NetworkSimulator.loss_probability
    device_registry,   \* Controller.device_registry: device_id -> RegisteredDevice
    last_call,         \* the operation that produced this state
    message,           \* the Message of the last send
    result,            \* the MessageResult of the last send
    controller_calls,  \* invocations of process_message made by the last send
    base_latency,      \* the latency drawn by the last send
    registration,      \* the arguments of the last register_device
    replaced,          \* the registry entry the last register_device overwrote
    config,            \* run_experiment: the configuration of the run
    pc,                \* run_experiment: the position reached in the run
    legit_devices,     \* run_experiment: the legitimate Device objects created
    rogue_device,      \* run_experiment: the RogueDevice created
    device_index,      \* run_experiment: index of the device of the outer loop
    message_count,     \* run_experiment: iterations done of the running inner loop
    records,           \* run_experiment: the records collected
    summary            \* the value returned by summarise_results

expvars == <<config, pc, legit_devices, rogue_device, device_index, message_count,
             records, summary>>

vars == <<mode, loss_probability, device_registry, last_call, message, result,
          controller_calls, base_latency, registration, replaced, expvars>>

----------------------------------------------------------------------------
(* Bounds of the model *)

\* number of distinct values random.uniform(*latency_range_ms) is sampled at
LatencySamples == 2

\* number of distinct values random.random() is sampled at
RandomSamples == 2

\* largest num_legit_devices, num_legit_messages_per_device and
\* num_rogue_messages of an experiment
MaxLegitDevices == 2

MaxLegitMessages == 2

MaxRogueMessages == 2

----------------------------------------------------------------------------
(* Values *)

None == "<None>"

Falsy(x) == x = None \/ x = ""

Modes == {"weak", "secure"}

DeviceIds == {"device_1", "rogue_1"}

\* api keys a device is registered with, and credentials a message carries
RegisteredKeys == {None, "", "key-device_1"}

Credentials == RegisteredKeys \cup {"invalid-key"}

\* roles a device is registered with, and roles a message claims ("guest" has
\* no entry in the RBAC table)
Roles == {"sensor", "robot"}

ClaimedRoles == Roles \cup {"guest"}

Actions == {"send_status", "shutdown"}

LossProbabilities == {0, 50, 100}

latency_range_ms == <<10, 100>>

security_overhead_ms == 5

accept_anyway_probability == 50

\* the values of random.uniform(a, b): a <= x <= b
UniformDraws ==
    { latency_range_ms[1]
        + (k * (latency_range_ms[2] - latency_range_ms[1])) \div (LatencySamples - 1)
      : k \in 0 .. (LatencySamples - 1) }

\* the values of random.random(): 0 <= x < 1
RandomDraws == { (k * 100) \div RandomSamples : k \in 0 .. (RandomSamples - 1) }

Message(device_id, role, action, credentials) ==
    [device_id |-> device_id, role |-> role, action |-> action,
     credentials |-> credentials]

Messages ==
    { Message(d, r, a, c) : d \in DeviceIds, r \in ClaimedRoles,
                            a \in Actions, c \in Credentials }

MessageResult(delivered, latency_ms, accepted, authorised, reason) ==
    [delivered |-> delivered, latency_ms |-> latency_ms, accepted |-> accepted,
     authorised |-> authorised, reason |-> reason]

RegisteredDevice(device_id, role, api_key) ==
    [device_id |-> device_id, role |-> role, api_key |-> api_key]

\* the default RBAC table of the controller; a role without an entry has
\* no allowed action (dict.get(role, set()))
rbac_policies(role) ==
    CASE role = "sensor" -> {"send_status"}
      [] role = "robot"  -> {"move", "shutdown", "send_status"}
      [] role = "viewer" -> {"read_status"}
      [] OTHER           -> {}

----------------------------------------------------------------------------
(* Controller helpers *)

\* variant: weak authentication that also compares the api key
authenticate_weak_checks_key(registry, msg) ==
    IF /\ msg.device_id \in DOMAIN registry
       /\ registry[msg.device_id].api_key = msg.credentials
    THEN <<TRUE, "auth_ok_weak">>
    ELSE <<FALSE, "unknown_device">>

authenticate_weak(registry, msg) ==
    IF msg.device_id \in DOMAIN registry
    THEN <<TRUE, "auth_ok_weak">>
    ELSE <<FALSE, "unknown_device">>

\* variant: the api key is required but never compared
authenticate_secure_no_compare(registry, msg) ==
    IF msg.device_id \notin DOMAIN registry
    THEN <<FALSE, "unknown_device">>
    ELSE IF Falsy(registry[msg.device_id].api_key) \/ Falsy(msg.credentials)
    THEN <<FALSE, "missing_api_key">>
    ELSE <<TRUE, "auth_ok_secure">>

\* variant: the api key is compared before it is tested for presence
authenticate_secure_compare_first(registry, msg) ==
    IF msg.device_id \notin DOMAIN registry
    THEN <<FALSE, "unknown_device">>
    ELSE IF registry[msg.device_id].api_key # msg.credentials
    THEN <<FALSE, "invalid_api_key">>
    ELSE IF Falsy(registry[msg.device_id].api_key) \/ Falsy(msg.credentials)
    THEN <<FALSE, "missing_api_key">>
    ELSE <<TRUE, "auth_ok_secure">>

authenticate_secure(registry, msg) ==
    IF msg.device_id \notin DOMAIN registry
    THEN <<FALSE, "unknown_device">>
    ELSE IF Falsy(registry[msg.device_id].api_key) \/ Falsy(msg.credentials)
    THEN <<FALSE, "missing_api_key">>
    ELSE IF registry[msg.device_id].api_key # msg.credentials
    THEN <<FALSE, "invalid_api_key">>
    ELSE <<TRUE, "auth_ok_secure">>

\* variant: the arguments of the table lookup are swapped
authorise_swapped(role, action) ==
    IF role \in rbac_policies(action)
    THEN <<TRUE, "authorised">>
    ELSE <<FALSE, "forbidden_action">>

\* variant: every action is authorised
authorise_always(role, action) == <<TRUE, "authorised">>

authorise(role, action) ==
    IF action \in rbac_policies(role)
    THEN <<TRUE, "authorised">>
    ELSE <<FALSE, "forbidden_action">>

Decision(accepted, authorised, reason, overhead_ms) ==
    [accepted |-> accepted, authorised |-> authorised, reason |-> reason,
     security_overhead_ms |-> overhead_ms]

\* variant: the overhead is charged in every mode
overhead_ms_all_modes(m) == security_overhead_ms

overhead_ms(m) == IF m = "secure" THEN security_overhead_ms ELSE 0

\* variant: the accept-without-auth fallback is taken in every mode
process_message_fallback_any_mode(m, registry, msg, r) ==
    LET auth == IF m = "weak" THEN authenticate_weak(registry, msg)
                              ELSE authenticate_secure(registry, msg)
        authz == authorise(msg.role, msg.action)
    IN  IF ~auth[1]
        THEN IF r < accept_anyway_probability
             THEN Decision(TRUE, FALSE, "accepted_without_auth:" \o auth[2],
                           overhead_ms(m))
             ELSE Decision(FALSE, FALSE, auth[2], overhead_ms(m))
        ELSE IF m = "secure"
        THEN IF ~authz[1]
             THEN Decision(FALSE, FALSE, authz[2], overhead_ms(m))
             ELSE Decision(TRUE, TRUE, "secure_accept", overhead_ms(m))
        ELSE Decision(TRUE, TRUE, "weak_accept_no_rbac", overhead_ms(m))

\* variant: the accept-without-auth fallback reports the message as authorised
process_message_fallback_authorised(m, registry, msg, r) ==
    LET auth == IF m = "weak" THEN authenticate_weak(registry, msg)
                              ELSE authenticate_secure(registry, msg)
        authz == authorise(msg.role, msg.action)
    IN  IF ~auth[1]
        THEN IF m = "weak" /\ r < accept_anyway_probability
             THEN Decision(TRUE, TRUE, "accepted_without_auth:" \o auth[2],
                           overhead_ms(m))
             ELSE Decision(FALSE, FALSE, auth[2], overhead_ms(m))
        ELSE IF m = "secure"
        THEN IF ~authz[1]
             THEN Decision(FALSE, FALSE, authz[2], overhead_ms(m))
             ELSE Decision(TRUE, TRUE, "secure_accept", overhead_ms(m))
        ELSE Decision(TRUE, TRUE, "weak_accept_no_rbac", overhead_ms(m))

\* variant: RBAC is decided on the role stored in the registry
process_message_registered_role(m, registry, msg, r) ==
    LET auth == IF m = "weak" THEN authenticate_weak(registry, msg)
                              ELSE authenticate_secure(registry, msg)
        authz == authorise(registry[msg.device_id].role, msg.action)
    IN  IF ~auth[1]
        THEN IF m = "weak" /\ r < accept_anyway_probability
             THEN Decision(TRUE, FALSE, "accepted_without_auth:" \o auth[2],
                           overhead_ms(m))
             ELSE Decision(FALSE, FALSE, auth[2], overhead_ms(m))
        ELSE IF m = "secure"
        THEN IF ~authz[1]
             THEN Decision(FALSE, FALSE, authz[2], overhead_ms(m))
             ELSE Decision(TRUE, TRUE, "secure_accept", overhead_ms(m))
        ELSE Decision(TRUE, TRUE, "weak_accept_no_rbac", overhead_ms(m))

\* r is the draw of random.random() the weak-mode fallback consumes
process_message(m, registry, msg, r) ==
    LET auth == IF m = "weak" THEN authenticate_weak(registry, msg)
                              ELSE authenticate_secure(registry, msg)
        authz == authorise(msg.role, msg.action)
    IN  IF ~auth[1]
        THEN IF m = "weak" /\ r < accept_anyway_probability
             THEN Decision(TRUE, FALSE, "accepted_without_auth:" \o auth[2],
                           overhead_ms(m))
             ELSE Decision(FALSE, FALSE, auth[2], overhead_ms(m))
        ELSE IF m = "secure"
        THEN IF ~authz[1]
             THEN Decision(FALSE, FALSE, authz[2], overhead_ms(m))
             ELSE Decision(TRUE, TRUE, "secure_accept", overhead_ms(m))
        ELSE Decision(TRUE, TRUE, "weak_accept_no_rbac", overhead_ms(m))

----------------------------------------------------------------------------
(* Network simulator *)

\* variant: the controller decides before the loss test and a dropped
\* message still reports its decision
send_decides_before_drop(latency_ms, r_loss, r_accept, msg, m, registry, loss) ==
    LET decision == process_message(m, registry, msg, r_accept)
    IN  IF r_loss < loss
        THEN [result |-> MessageResult(FALSE, latency_ms, decision.accepted,
                                       decision.authorised, "network_drop"),
              calls  |-> 1]
        ELSE [result |-> MessageResult(TRUE,
                                       latency_ms + decision.security_overhead_ms,
                                       decision.accepted, decision.authorised,
                                       decision.reason),
              calls  |-> 1]

\* variant: the loss test is inverted
send_inverted_loss(latency_ms, r_loss, r_accept, msg, m, registry, loss) ==
    IF r_loss >= loss
    THEN [result |-> MessageResult(FALSE, latency_ms, FALSE, FALSE, "network_drop"),
          calls  |-> 0]
    ELSE LET decision == process_message(m, registry, msg, r_accept)
         IN  [result |-> MessageResult(TRUE,
                                       latency_ms + decision.security_overhead_ms,
                                       decision.accepted, decision.authorised,
                                       decision.reason),
              calls  |-> 1]

\* latency_ms and r_loss are the two draws of send; r_accept is the draw the
\* controller may consume.  calls counts the invocations of process_message.
send(latency_ms, r_loss, r_accept, msg, m, registry, loss) ==
    IF r_loss < loss
    THEN [result |-> MessageResult(FALSE, latency_ms, FALSE, FALSE, "network_drop"),
          calls  |-> 0]
    ELSE LET decision == process_message(m, registry, msg, r_accept)
         IN  [result |-> MessageResult(TRUE,
                                       latency_ms + decision.security_overhead_ms,
                                       decision.accepted, decision.authorised,
                                       decision.reason),
              calls  |-> 1]

\* variant: an existing entry is kept (first write wins)
register_device_keeps_first(registry, device_id, role, api_key) ==
    [d \in DOMAIN registry \cup {device_id} |->
        IF d \in DOMAIN registry THEN registry[d]
                                 ELSE RegisteredDevice(device_id, role, api_key)]

register_device(registry, device_id, role, api_key) ==
    [d \in DOMAIN registry \cup {device_id} |->
        IF d = device_id THEN RegisteredDevice(device_id, role, api_key)
                         ELSE registry[d]]

----------------------------------------------------------------------------
(* State machine *)

NoMessage == Message("", "", "", None)

NoResult == MessageResult(FALSE, 0, FALSE, FALSE, "")

NoDevice == RegisteredDevice("", "", None)

NoConfig ==
    [num_legit_devices |-> 0, num_legit_messages_per_device |-> 0,
     num_rogue_messages |-> 0, rogue_device_id |-> ""]

NoSummary ==
    [total_messages |-> 0, total_legitimate |-> 0, total_rogue |-> 0,
     legitimate_accepted |-> 0, rogue_accepted |-> 0,
     rogue_unauthorised_accepted |-> 0, avg_latency_all_ms |-> 0,
     avg_latency_legitimate_ms |-> 0, avg_latency_rogue_ms |-> 0]

\* a controller and a network simulator just constructed
Constructed ==
    /\ mode \in Modes
    /\ loss_probability \in LossProbabilities
    /\ device_registry = << >>
    /\ last_call = "init"
    /\ message = NoMessage
    /\ result = NoResult
    /\ controller_calls = 0
    /\ base_latency = 0
    /\ registration = NoDevice
    /\ replaced = NoDevice

\* no experiment is running: the controller is driven directly
Init ==
    /\ Constructed
    /\ config = NoConfig
    /\ pc = "none"
    /\ legit_devices = << >>
    /\ rogue_device = NoDevice
    /\ device_index = 0
    /\ message_count = 0
    /\ records = << >>
    /\ summary = NoSummary

RegisterDevice(device_id, role, api_key) ==
    /\ device_registry' = register_device(device_registry, device_id, role, api_key)
    /\ last_call' = "register_device"
    /\ message' = NoMessage
    /\ result' = NoResult
    /\ controller_calls' = 0
    /\ base_latency' = 0
    /\ registration' = RegisteredDevice(device_id, role, api_key)
    /\ replaced' = IF device_id \in DOMAIN device_registry
                   THEN device_registry[device_id] ELSE NoDevice
    /\ UNCHANGED <<mode, loss_probability>>

SendWith(msg, latency_ms, r_loss, r_accept) ==
    LET out == send(latency_ms, r_loss, r_accept, msg, mode, device_registry,
                    loss_probability)
    IN  /\ last_call' = "send"
        /\ message' = msg
        /\ result' = out.result
        /\ controller_calls' = out.calls
        /\ base_latency' = latency_ms
        /\ registration' = NoDevice
        /\ replaced' = NoDevice
        /\ UNCHANGED <<mode, loss_probability, device_registry>>

Register ==
    /\ \E d \in DeviceIds, r \in Roles, k \in RegisteredKeys : RegisterDevice(d, r, k)
    /\ UNCHANGED expvars

\* random.random() is drawn a second time only on the weak-mode fallback of a
\* delivered message; elsewhere no draw is made and the value is unused
FallbackDraws(msg, r_loss) ==
    IF /\ ~(r_loss < loss_probability)
       /\ mode = "weak"
       /\ ~authenticate_weak(device_registry, msg)[1]
    THEN RandomDraws
    ELSE {0}

Send ==
    /\ \E msg \in Messages, l \in UniformDraws, r1 \in RandomDraws :
          \E r2 \in FallbackDraws(msg, r1) : SendWith(msg, l, r1, r2)
    /\ UNCHANGED expvars

Next == Register \/ Send

Spec == Init /\ [][Next]_vars

----------------------------------------------------------------------------
(* Experiment driver (experiment.py) *)

Device(device_id, role, api_key) ==
    [device_id |-> device_id, role |-> role, api_key |-> api_key]

role_cycle == <<"sensor", "robot", "viewer">>

\* the i-th legitimate device created, i counted from 0 as in the code
legit_device(i, m) ==
    LET device_id == "device_" \o ToString(i + 1)
    IN  Device(device_id, role_cycle[(i % Len(role_cycle)) + 1],
               IF m = "secure" THEN "key-" \o device_id ELSE None)

make_rogue_device(cfg, m) ==
    Device(cfg.rogue_device_id, "robot",
           IF m = "secure" THEN "invalid-key" ELSE None)

choose_legitimate_action(role) ==
    IF role = "sensor" THEN "send_status"
    ELSE IF role = "viewer" THEN "read_status"
    ELSE "move"

choose_malicious_action == "shutdown"

send_action(device, action) ==
    Message(device.device_id, device.role, action, device.api_key)

Record(source, device, action, res) ==
    [source |-> source, device_id |-> device.device_id, role |-> device.role,
     action |-> action, delivered |-> res.delivered,
     latency_ms |-> res.latency_ms, accepted |-> res.accepted,
     authorised |-> res.authorised, reason |-> res.reason]

RECURSIVE SumLatency(_)
SumLatency(rs) ==
    IF rs = << >> THEN 0 ELSE Head(rs).latency_ms + SumLatency(Tail(rs))

IsDelivered(r) == r.delivered

\* the average in whole milliseconds
avg_latency(rs) ==
    LET delivered == SelectSeq(rs, IsDelivered)
    IN  IF delivered = << >> THEN 0
        ELSE SumLatency(delivered) \div Len(delivered)

IsLegitimate(r) == r.source = "legitimate"

IsRogue(r) == r.source = "rogue"

IsAccepted(r) == r.accepted

IsUnauthorisedAccepted(r) == r.accepted /\ ~r.authorised

\* variant: only the accepted records are counted
summarise_results_counts_accepted(recs) ==
    LET legit_records == SelectSeq(SelectSeq(recs, IsLegitimate), IsAccepted)
        rogue_records == SelectSeq(SelectSeq(recs, IsRogue), IsAccepted)
    IN  [total_messages |-> Len(recs),
         total_legitimate |-> Len(legit_records),
         total_rogue |-> Len(rogue_records),
         legitimate_accepted |-> Len(SelectSeq(legit_records, IsAccepted)),
         rogue_accepted |-> Len(SelectSeq(rogue_records, IsAccepted)),
         rogue_unauthorised_accepted |->
             Len(SelectSeq(rogue_records, IsUnauthorisedAccepted)),
         avg_latency_all_ms |-> avg_latency(recs),
         avg_latency_legitimate_ms |-> avg_latency(legit_records),
         avg_latency_rogue_ms |-> avg_latency(rogue_records)]

summarise_results(recs) ==
    LET legit_records == SelectSeq(recs, IsLegitimate)
        rogue_records == SelectSeq(recs, IsRogue)
    IN  [total_messages |-> Len(recs),
         total_legitimate |-> Len(legit_records),
         total_rogue |-> Len(rogue_records),
         legitimate_accepted |-> Len(SelectSeq(legit_records, IsAccepted)),
         rogue_accepted |-> Len(SelectSeq(rogue_records, IsAccepted)),
         rogue_unauthorised_accepted |->
             Len(SelectSeq(rogue_records, IsUnauthorisedAccepted)),
         avg_latency_all_ms |-> avg_latency(recs),
         avg_latency_legitimate_ms |-> avg_latency(legit_records),
         avg_latency_rogue_ms |-> avg_latency(rogue_records)]

Configs ==
    [num_legit_devices : 0 .. MaxLegitDevices,
     num_legit_messages_per_device : 0 .. MaxLegitMessages,
     num_rogue_messages : 0 .. MaxRogueMessages,
     rogue_device_id : {"rogue_1", "device_1"}]

\* run_experiment is entered with some mode and configuration
InitExperiment ==
    /\ Constructed
    /\ config \in Configs
    /\ pc = "create"
    /\ legit_devices = << >>
    /\ rogue_device = NoDevice
    /\ device_index = 0
    /\ message_count = 0
    /\ records = << >>
    /\ summary = NoSummary

\* one iteration of the loop of _create_devices_and_controller
CreateDevice ==
    /\ pc = "create"
    /\ Len(legit_devices) < config.num_legit_devices
    /\ LET device == legit_device(Len(legit_devices), mode)
       IN  /\ RegisterDevice(device.device_id, device.role, device.api_key)
           /\ legit_devices' = Append(legit_devices, device)
    /\ UNCHANGED <<config, pc, rogue_device, device_index, message_count,
                   records, summary>>

\* the loop is over: the rogue device is created and the legitimate traffic starts
CreateRogue ==
    /\ pc = "create"
    /\ Len(legit_devices) = config.num_legit_devices
    /\ rogue_device' = make_rogue_device(config, mode)
    /\ pc' = "legit"
    /\ device_index' = 1
    /\ message_count' = 0
    /\ UNCHANGED <<mode, loss_probability, device_registry, last_call, message,
                   result, controller_calls, base_latency, registration, replaced,
                   config, legit_devices, records, summary>>

\* device.send_action(action) through the network, with the draws it makes
DeviceSends(device, action) ==
    LET msg == send_action(device, action)
    IN  \E l \in UniformDraws, r1 \in RandomDraws :
            \E r2 \in FallbackDraws(msg, r1) : SendWith(msg, l, r1, r2)

\* one iteration of the inner loop of the legitimate traffic
LegitSend ==
    /\ pc = "legit"
    /\ device_index <= Len(legit_devices)
    /\ message_count < config.num_legit_messages_per_device
    /\ LET device == legit_devices[device_index]
           action == choose_legitimate_action(device.role)
       IN  /\ DeviceSends(device, action)
           /\ records' = Append(records, Record("legitimate", device, action, result'))
    /\ message_count' = message_count + 1
    /\ UNCHANGED <<config, pc, legit_devices, rogue_device, device_index, summary>>

\* the inner loop is over: the outer loop takes the next device
NextDevice ==
    /\ pc = "legit"
    /\ device_index <= Len(legit_devices)
    /\ message_count = config.num_legit_messages_per_device
    /\ device_index' = device_index + 1
    /\ message_count' = 0
    /\ UNCHANGED <<mode, loss_probability, device_registry, last_call, message,
                   result, controller_calls, base_latency, registration, replaced,
                   config, pc, legit_devices, rogue_device, records, summary>>

\* the outer loop is over: the rogue traffic starts
StartRogue ==
    /\ pc = "legit"
    /\ device_index > Len(legit_devices)
    /\ pc' = "rogue"
    /\ message_count' = 0
    /\ UNCHANGED <<mode, loss_probability, device_registry, last_call, message,
                   result, controller_calls, base_latency, registration, replaced,
                   config, legit_devices, rogue_device, device_index, records,
                   summary>>

\* one iteration of the loop of the rogue traffic
RogueSend ==
    /\ pc = "rogue"
    /\ message_count < config.num_rogue_messages
    /\ LET action == choose_malicious_action
       IN  /\ DeviceSends(rogue_device, action)
           /\ records' = Append(records, Record("rogue", rogue_device, action, result'))
    /\ message_count' = message_count + 1
    /\ UNCHANGED <<config, pc, legit_devices, rogue_device, device_index, summary>>

\* run_experiment returns its records and summarise_results is applied to them
Summarise ==
    /\ pc = "rogue"
    /\ message_count = config.num_rogue_messages
    /\ summary' = summarise_results(records)
    /\ pc' = "summarised"
    /\ UNCHANGED <<mode, loss_probability, device_registry, last_call, message,
                   result, controller_calls, base_latency, registration, replaced,
                   config, legit_devices, rogue_device, device_index,
                   message_count, records>>

NextExperiment ==
    \/ CreateDevice
    \/ CreateRogue
    \/ LegitSend
    \/ NextDevice
    \/ StartRogue
    \/ RogueSend
    \/ Summarise

SpecExperiment == InitExperiment /\ [][NextExperiment]_vars

----------------------------------------------------------------------------------------------------------------------------------------
(* State predicates shared by the properties.  A send leaves the registry   *)
(* unchanged, so in a state with last_call = "send" the registry is the one *)
(* the message was decided against.                                         *)

Sent == last_call = "send"

Delivered == Sent /\ result.delivered

Registered == message.device_id \in DOMAIN device_registry

RegisteredKey == device_registry[message.device_id].api_key

Outcome(delivered, accepted, authorised, reason) ==
    /\ result.delivered = delivered
    /\ result.accepted = accepted
    /\ result.authorised = authorised
    /\ result.reason = reason

NoLossSecure == Sent /\ loss_probability = 0 /\ mode = "secure"

----------------------------------------------------------------------------
\* C1: every MessageResult of send, in either mode and after any registrations
\* and earlier sends, has accepted => delivered and authorised => accepted.
C1_AcceptedDeliveredAuthorised ==
    Sent => /\ result.accepted => result.delivered
            /\ result.authorised => result.accepted

C1_Witness == Delivered /\ result.accepted /\ ~result.authorised

\* C2: in secure mode a delivered message whose authentication fails is never
\* accepted and the accept-without-auth override is never applied; an accepted
\* message comes from a registered device whose credentials equal its
\* registered non-empty api_key and whose action is allowed for the claimed role.
C2_SecureNeverAcceptsUnauthenticated ==
    (Delivered /\ mode = "secure") =>
        /\ result.reason \notin { "accepted_without_auth:" \o r :
                                    r \in {"unknown_device", "missing_api_key",
                                           "invalid_api_key"} }
        /\ ( \/ ~Registered
             \/ Falsy(RegisteredKey)
             \/ Falsy(message.credentials)
             \/ RegisteredKey # message.credentials )
           => /\ ~result.accepted
              /\ result.reason \in {"unknown_device", "missing_api_key",
                                    "invalid_api_key"}
        /\ result.accepted =>
              /\ Registered
              /\ ~Falsy(RegisteredKey)
              /\ message.credentials = RegisteredKey
              /\ message.action \in rbac_policies(message.role)

C2_Witness ==
    /\ Delivered /\ mode = "secure" /\ ~result.accepted
    /\ Registered /\ ~Falsy(RegisteredKey) /\ ~Falsy(message.credentials)
    /\ RegisteredKey # message.credentials

\* C3 as stated: without loss and in secure mode, a registered device sending
\* with its registered api_key and an action allowed for its role is delivered,
\* accepted and authorised with reason "secure_accept".
C3_Original ==
    ( /\ NoLossSecure /\ Registered
      /\ message.credentials = RegisteredKey
      /\ message.action \in rbac_policies(message.role) )
    => Outcome(TRUE, TRUE, TRUE, "secure_accept")

\* C3 amended: the same, for a device registered with a non-empty api_key.
C3_SecureAccept ==
    ( /\ NoLossSecure /\ Registered
      /\ ~Falsy(RegisteredKey)
      /\ message.credentials = RegisteredKey
      /\ message.action \in rbac_policies(message.role) )
    => Outcome(TRUE, TRUE, TRUE, "secure_accept")

C3_Witness ==
    /\ NoLossSecure /\ Registered /\ ~Falsy(RegisteredKey)
    /\ message.credentials = RegisteredKey
    /\ message.role = "robot" /\ message.action = "shutdown"
    /\ result.reason = "secure_accept"

\* C4 as stated: without loss and in secure mode, a registered device sending
\* with credentials that differ from its registered api_key is delivered and
\* rejected with reason "invalid_api_key", whatever action and role it claims.
C4_Original ==
    ( /\ NoLossSecure /\ Registered
      /\ message.credentials # RegisteredKey )
    => Outcome(TRUE, FALSE, FALSE, "invalid_api_key")

\* C4 amended: the same, when the registered api_key and the credentials are
\* both non-empty.
C4_InvalidApiKey ==
    ( /\ NoLossSecure /\ Registered
      /\ ~Falsy(RegisteredKey) /\ ~Falsy(message.credentials)
      /\ message.credentials # RegisteredKey )
    => Outcome(TRUE, FALSE, FALSE, "invalid_api_key")

C4_Witness ==
    /\ NoLossSecure /\ Registered
    /\ ~Falsy(RegisteredKey) /\ ~Falsy(message.credentials)
    /\ message.credentials # RegisteredKey
    /\ message.action \in rbac_policies(message.role)
    /\ result.reason = "invalid_api_key"

\* C5 as stated: without loss and in secure mode, a registered device sending
\* with its registered api_key but an action outside the allowed set of the
\* role it claims is delivered and rejected with reason "forbidden_action".
C5_Original ==
    ( /\ NoLossSecure /\ Registered
      /\ message.credentials = RegisteredKey
      /\ message.action \notin rbac_policies(message.role) )
    => Outcome(TRUE, FALSE, FALSE, "forbidden_action")

\* C5 amended: the same, for a device registered with a non-empty api_key.
C5_ForbiddenAction ==
    ( /\ NoLossSecure /\ Registered
      /\ ~Falsy(RegisteredKey)
      /\ message.credentials = RegisteredKey
      /\ message.action \notin rbac_policies(message.role) )
    => Outcome(TRUE, FALSE, FALSE, "forbidden_action")

C5_Witness ==
    /\ NoLossSecure /\ Registered /\ ~Falsy(RegisteredKey)
    /\ message.credentials = RegisteredKey
    /\ message.role = "sensor" /\ message.action = "shutdown"
    /\ result.reason = "forbidden_action"

\* C6: with loss_probability 1.0 every send, in either mode and for any message
\* and registry, returns delivered, accepted and authorised all false with
\* reason "network_drop", and process_message is not invoked for that send;
\* no send invokes it more than once.
C6_TotalLossDropsAll ==
    Sent =>
        /\ loss_probability = 100 =>
              /\ Outcome(FALSE, FALSE, FALSE, "network_drop")
              /\ controller_calls = 0
        /\ ~result.delivered =>
              /\ result.reason = "network_drop"
              /\ controller_calls = 0
        /\ controller_calls <= 1

C6_Witness ==
    /\ Sent /\ loss_probability = 100 /\ mode = "weak" /\ Registered
    /\ result.reason = "network_drop"

\* C7: in weak mode a delivered message from a device_id that is not in the
\* registry has exactly two possible outcomes: accepted but not authorised with
\* reason "accepted_without_auth:unknown_device", or rejected with reason
\* "unknown_device"; it is never authorised.  Wherever such a message can be
\* delivered, each of the two outcomes is a possible result of sending it.
C7_UnknownSendsTo(msg, accepted, reason) ==
    \E l \in UniformDraws, r1 \in RandomDraws :
        \E r2 \in FallbackDraws(msg, r1) :
            /\ SendWith(msg, l, r1, r2)
            /\ UNCHANGED expvars
            /\ result'.delivered
            /\ result'.accepted = accepted
            /\ result'.reason = reason

C7_WeakUnknownDevice ==
    /\ (Delivered /\ mode = "weak" /\ ~Registered) =>
          /\ ~result.authorised
          /\ \/ result.accepted /\ result.reason = "accepted_without_auth:unknown_device"
             \/ ~result.accepted /\ result.reason = "unknown_device"
    /\ (mode = "weak" /\ loss_probability < 100) =>
          \A msg \in Messages :
              msg.device_id \notin DOMAIN device_registry =>
                  /\ ENABLED C7_UnknownSendsTo(msg, TRUE,
                                 "accepted_without_auth:unknown_device")
                  /\ ENABLED C7_UnknownSendsTo(msg, FALSE, "unknown_device")

C7_Witness ==
    /\ Delivered /\ mode = "weak" /\ ~Registered
    /\ result.accepted /\ result.reason = "accepted_without_auth:unknown_device"
    /\ DOMAIN device_registry # {}

C7_WitnessRejected ==
    /\ Delivered /\ mode = "weak" /\ ~Registered
    /\ ~result.accepted /\ result.reason = "unknown_device"

\* C8: in weak mode a delivered message from a device_id that is in the registry
\* is accepted and authorised with reason "weak_accept_no_rbac", whatever its
\* credentials, claimed role and action.
C8_WeakRegisteredAccepted ==
    (Delivered /\ mode = "weak" /\ Registered) =>
        Outcome(TRUE, TRUE, TRUE, "weak_accept_no_rbac")

C8_Witness ==
    /\ Delivered /\ mode = "weak" /\ Registered
    /\ ~Falsy(RegisteredKey) /\ message.credentials = "invalid-key"
    /\ message.role = "guest" /\ message.action = "shutdown"
    /\ result.reason = "weak_accept_no_rbac"

C9_WitnessSecure ==
    /\ Delivered /\ mode = "secure"
    /\ result.latency_ms = latency_range_ms[2] + security_overhead_ms

\* C10 as stated: the api_key stored for a device_id, once set, is the same
\* after every register_device and send.
C10_Original ==
    [][ \A d \in DOMAIN device_registry :
            ~Falsy(device_registry[d].api_key) =>
                /\ d \in DOMAIN device_registry'
                /\ device_registry'[d].api_key = device_registry[d].api_key ]_vars

\* C10 amended: a send never changes the registry, and register_device changes
\* only the entry of the device_id it is given, whose api_key becomes the one
\* given (last write wins); no entry is ever removed.
C10_KeyChangesOnlyByRegistration ==
    [][ /\ DOMAIN device_registry \subseteq DOMAIN device_registry'
        /\ last_call' = "send" => device_registry' = device_registry
        /\ last_call' = "register_device" =>
              /\ registration'.device_id \in DOMAIN device_registry'
              /\ device_registry'[registration'.device_id].api_key
                    = registration'.api_key
              /\ \A d \in DOMAIN device_registry \ {registration'.device_id} :
                    device_registry'[d] = device_registry[d] ]_vars

C10_Witness ==
    /\ last_call = "register_device"
    /\ replaced.device_id = registration.device_id
    /\ ~Falsy(replaced.api_key)
    /\ replaced.api_key # registration.api_key
    /\ device_registry[registration.device_id].api_key = registration.api_key
    /\ Cardinality(DOMAIN device_registry) = 2

\* C12 as stated: in secure mode a delivered message of a registered device
\* that carries the registered api_key and claims a role other than the
\* registered one is "secure_accept" exactly when the action is allowed for
\* the claimed role, and "forbidden_action" otherwise.
C12_Original ==
    ( /\ Delivered /\ mode = "secure" /\ Registered
      /\ message.credentials = RegisteredKey
      /\ message.role # device_registry[message.device_id].role )
    => IF message.action \in rbac_policies(message.role)
       THEN Outcome(TRUE, TRUE, TRUE, "secure_accept")
       ELSE Outcome(TRUE, FALSE, FALSE, "forbidden_action")

\* C12 amended: the same, for a device registered with a non-empty api_key.
C12_ClaimedRoleDecides ==
    ( /\ Delivered /\ mode = "secure" /\ Registered
      /\ ~Falsy(RegisteredKey)
      /\ message.credentials = RegisteredKey
      /\ message.role # device_registry[message.device_id].role )
    => IF message.action \in rbac_policies(message.role)
       THEN Outcome(TRUE, TRUE, TRUE, "secure_accept")
       ELSE Outcome(TRUE, FALSE, FALSE, "forbidden_action")

\* a sensor claiming to be a robot is allowed to shut down
C12_Witness ==
    /\ Delivered /\ mode = "secure" /\ Registered /\ ~Falsy(RegisteredKey)
    /\ message.credentials = RegisteredKey
    /\ device_registry[message.device_id].role = "sensor"
    /\ message.role = "robot" /\ message.action = "shutdown"
    /\ result.reason = "secure_accept"

\* a robot claiming to be a sensor is refused what its registered role allows
C12_WitnessForbidden ==
    /\ Delivered /\ mode = "secure" /\ Registered /\ ~Falsy(RegisteredKey)
    /\ message.credentials = RegisteredKey
    /\ device_registry[message.device_id].role = "robot"
    /\ message.role = "sensor" /\ message.action = "shutdown"
    /\ result.reason = "forbidden_action"

\* C13: in secure mode the reason of a delivered message follows the
\* precedence: "unknown_device" if the device_id is not registered; otherwise
\* "missing_api_key" if the registered api_key is empty or absent or the
\* message carries no credentials, also when both are absent and equal;
\* otherwise "invalid_api_key" if the credentials differ from the registered
\* key; authentication succeeds, and RBAC decides, only when none of these hold.
C13_AuthFailed ==
    result.reason \in {"unknown_device", "missing_api_key", "invalid_api_key"}

C13_SecureFailurePrecedence ==
    (Delivered /\ mode = "secure") =>
        /\ ~Registered => result.reason = "unknown_device"
        /\ ( /\ Registered
             /\ Falsy(RegisteredKey) \/ Falsy(message.credentials) )
           => result.reason = "missing_api_key"
        /\ ( /\ Registered
             /\ ~Falsy(RegisteredKey) /\ ~Falsy(message.credentials)
             /\ message.credentials # RegisteredKey )
           => result.reason = "invalid_api_key"
        /\ ( /\ Registered
             /\ ~Falsy(RegisteredKey) /\ ~Falsy(message.credentials)
             /\ message.credentials = RegisteredKey )
           <=> ~C13_AuthFailed
        /\ ~C13_AuthFailed => result.reason \in {"secure_accept", "forbidden_action"}

C13_Witness ==
    /\ Delivered /\ mode = "secure" /\ Registered
    /\ RegisteredKey = None /\ message.credentials = None
    /\ result.reason = "missing_api_key"

C13_WitnessKeyAbsent ==
    /\ Delivered /\ mode = "secure" /\ Registered
    /\ Falsy(RegisteredKey) /\ message.credentials = "invalid-key"
    /\ result.reason = "missing_api_key"

\* C11: run_experiment followed by summarise_results yields exactly one record
\* per issued message, whatever the mode, the loss and the outcomes:
\* total_legitimate = num_legit_devices * num_legit_messages_per_device,
\* total_rogue = num_rogue_messages, total_messages is their sum, and every
\* legitimate record precedes every rogue record.  While the run is under way
\* the records collected are one per iteration done.
C11_LegitimateTotal ==
    config.num_legit_devices * config.num_legit_messages_per_device

C11_ExperimentTotals ==
    /\ pc = "create" => records = << >>
    /\ pc = "legit" =>
          Len(records) = (device_index - 1) * config.num_legit_messages_per_device
                            + message_count
    /\ pc = "rogue" => Len(records) = C11_LegitimateTotal + message_count
    /\ \A i \in 1 .. Len(records) : \A j \in i .. Len(records) :
          records[i].source = "rogue" => records[j].source = "rogue"
    /\ pc = "summarised" =>
          /\ summary.total_legitimate = C11_LegitimateTotal
          /\ summary.total_rogue = config.num_rogue_messages
          /\ summary.total_messages = C11_LegitimateTotal + config.num_rogue_messages
          /\ Len(records) = summary.total_messages
          /\ \A i \in 1 .. Len(records) :
                records[i].source =
                    IF i <= C11_LegitimateTotal THEN "legitimate" ELSE "rogue"

\* a run of 2 devices, 2 messages each and 2 rogue messages in which a
\* legitimate message was dropped and a rogue one was accepted
C11_Witness ==
    /\ pc = "summarised"
    /\ config.num_legit_devices = 2
    /\ config.num_legit_messages_per_device = 2
    /\ config.num_rogue_messages = 2
    /\ summary.total_messages = 6
    /\ summary.total_legitimate = 4
    /\ summary.total_rogue = 2
    /\ summary.legitimate_accepted < 4
    /\ summary.rogue_accepted > 0
    /\ ~records[1].delivered

====
